---- MODULE Spec2Model ----
(***************************************************************************)
(* A model of the quorum voting engine of GUGUbot:                         *)
(*   gugubot/utils/vote_manager.py   Vote, VoteManager                     *)
(*   gugubot/logic/system/vote.py    VoteSystem (the asynchronous handlers *)
(*                                   and the timeout monitor)              *)
(*                                                                         *)
(* The specifications share the variables:                                 *)
(*   SpecVote     one ballot, created with parameters drawn from bounded   *)
(*                sets, and the methods of Vote called in any order;       *)
(*   Spec         a VoteManager and its public methods called in any       *)
(*                order;                                                   *)
(*   SpecIndex    create_vote and delete_vote with three kinds of ballot;  *)
(*   SpecCleanup  a VoteManager swept by cleanup_finished_votes;           *)
(*   SpecSnapshot a caller that changes the set it passed to create_vote;  *)
(*   SpecRegistry a VoteTypeRegistry: register, unregister and clear;      *)
(*   SpecSys      a VoteSystem: its handlers run as coroutines that        *)
(*                suspend at their awaits, and one monitor task per        *)
(*                started ballot; SpecSysFair adds the scheduling of the   *)
(*                event loop.                                              *)
(***************************************************************************)
EXTENDS Integers, FiniteSets, Sequences, Bags, TLC

---------------------------------------------------------------------------
(* Bounds of the model. *)

\* voter ids are 1..NumVoters (SpecVote)
NumVoters == 4
\* the clock runs over 0..MaxTime
MaxTime == 2
\* create_vote is called while _vote_counter < MaxVotes (Spec, SpecSys)
MaxVotes == 3

\* required_percentage is a float in [0.0, 1.0]; the model holds it in hundredths
Percent == 100

\* None, where a VoteStatus is expected
None == "None"
\* None, where a Vote (the model holds its vote_id) or a task is expected
NoVote == <<>>

\* VoteStatus
PENDING == "pending"
PASSED == "passed"
REJECTED == "rejected"
CANCELLED == "cancelled"
TIMEOUT == "timeout"
ERROR == "error"
VoteStatus == {PENDING, PASSED, REJECTED, CANCELLED, TIMEOUT, ERROR}

Voters == 1..NumVoters

VARIABLES
    active_votes,   \* VoteManager.active_votes: vote_id -> Vote
    vote_counter,   \* VoteManager._vote_counter
    now,            \* time.time()
    last,           \* Spec, SpecVote: the last call made and what it returned
    handlers,       \* SpecSys: the suspended handler coroutines of VoteSystem
    monitors,       \* SpecSys: the _monitor_vote task of each started ballot
    monitor_task,   \* SpecSys: VoteSystem._monitor_task
    broadcasts,     \* SpecSys: vote_id -> broadcasts of the end of the vote (outcome, deletion)
    callbacks,      \* SpecSys: vote_id -> invocations of vote.callback
    registry,       \* SpecRegistry: VoteTypeRegistry._registry, vote_type -> config
    keyword_map,    \* SpecRegistry: VoteTypeRegistry._keyword_map, keyword -> vote_type
    passed_set      \* SpecSnapshot: the set object last passed to create_vote,
                    \* which the caller still holds

sysvars == <<handlers, monitors, monitor_task, broadcasts, callbacks>>
regvars == <<registry, keyword_map>>
vars == <<active_votes, vote_counter, now, last, handlers, monitors, monitor_task, broadcasts, callbacks, registry, keyword_map, passed_set>>

---------------------------------------------------------------------------
(* Vote *)

Max(a, b) == IF a >= b THEN a ELSE b
Min(a, b) == IF a <= b THEN a ELSE b

\* Vote.__init__
Vote(vote_id, vote_type, eligible_voters, required_percentage, timeout, callback, index, t) ==
    [vote_id |-> vote_id,
     vote_type |-> vote_type,
     eligible_voters |-> eligible_voters,
     required_percentage |-> Max(0, Min(Percent, required_percentage)),
     timeout |-> timeout,
     callback |-> callback,
     index |-> index,
     yes_votes |-> {},
     no_votes |-> {},
     status |-> PENDING,
     start_time |-> t]

\* cast_vote that records the new choice without removing the previous one
Vote_cast_vote_NoDiscard(v, voter_id, vote_yes) ==
    IF v.status # PENDING THEN [vote |-> v, ret |-> <<FALSE, FALSE>>]
    ELSE IF voter_id \notin v.eligible_voters THEN [vote |-> v, ret |-> <<FALSE, FALSE>>]
    ELSE LET is_new_vote == voter_id \notin v.yes_votes /\ voter_id \notin v.no_votes
         IN  [vote |-> IF vote_yes
                       THEN [v EXCEPT !.yes_votes = @ \cup {voter_id}]
                       ELSE [v EXCEPT !.no_votes = @ \cup {voter_id}],
              ret |-> <<TRUE, is_new_vote>>]

\* cast_vote reporting every accepted vote as a new one
Vote_cast_vote_AlwaysNew(v, voter_id, vote_yes) ==
    IF v.status # PENDING THEN [vote |-> v, ret |-> <<FALSE, FALSE>>]
    ELSE IF voter_id \notin v.eligible_voters THEN [vote |-> v, ret |-> <<FALSE, FALSE>>]
    ELSE [vote |-> IF vote_yes
                   THEN [v EXCEPT !.yes_votes = @ \cup {voter_id}, !.no_votes = @ \ {voter_id}]
                   ELSE [v EXCEPT !.yes_votes = @ \ {voter_id}, !.no_votes = @ \cup {voter_id}],
          ret |-> <<TRUE, TRUE>>]

\* cast_vote without the test of voter_id against eligible_voters
Vote_cast_vote_NoEligibilityTest(v, voter_id, vote_yes) ==
    IF v.status # PENDING THEN [vote |-> v, ret |-> <<FALSE, FALSE>>]
    ELSE LET is_new_vote == voter_id \notin v.yes_votes /\ voter_id \notin v.no_votes
             yes1 == v.yes_votes \ {voter_id}
             no1 == v.no_votes \ {voter_id}
         IN  [vote |-> IF vote_yes
                       THEN [v EXCEPT !.yes_votes = yes1 \cup {voter_id}, !.no_votes = no1]
                       ELSE [v EXCEPT !.yes_votes = yes1, !.no_votes = no1 \cup {voter_id}],
              ret |-> <<TRUE, is_new_vote>>]

\* Vote.cast_vote: the vote afterwards and the pair returned
Vote_cast_vote(v, voter_id, vote_yes) ==
    IF v.status # PENDING THEN [vote |-> v, ret |-> <<FALSE, FALSE>>]
    ELSE IF voter_id \notin v.eligible_voters THEN [vote |-> v, ret |-> <<FALSE, FALSE>>]
    ELSE LET is_new_vote == voter_id \notin v.yes_votes /\ voter_id \notin v.no_votes
             yes1 == v.yes_votes \ {voter_id}
             no1 == v.no_votes \ {voter_id}
         IN  [vote |-> IF vote_yes
                       THEN [v EXCEPT !.yes_votes = yes1 \cup {voter_id}, !.no_votes = no1]
                       ELSE [v EXCEPT !.yes_votes = yes1, !.no_votes = no1 \cup {voter_id}],
              ret |-> <<TRUE, is_new_vote>>]

\* withdraw_vote without the test that the voter has voted
Vote_withdraw_vote_NoVoteTest(v, voter_id) ==
    IF v.status # PENDING THEN [vote |-> v, ret |-> FALSE]
    ELSE IF voter_id \notin v.eligible_voters THEN [vote |-> v, ret |-> FALSE]
    ELSE [vote |-> [v EXCEPT !.yes_votes = @ \ {voter_id}, !.no_votes = @ \ {voter_id}],
          ret |-> TRUE]

\* withdraw_vote that takes the voter out of eligible_voters as well
Vote_withdraw_vote_LeavesBallot(v, voter_id) ==
    IF v.status # PENDING THEN [vote |-> v, ret |-> FALSE]
    ELSE IF voter_id \notin v.eligible_voters THEN [vote |-> v, ret |-> FALSE]
    ELSE IF voter_id \notin v.yes_votes /\ voter_id \notin v.no_votes
         THEN [vote |-> v, ret |-> FALSE]
    ELSE [vote |-> [v EXCEPT !.yes_votes = @ \ {voter_id}, !.no_votes = @ \ {voter_id},
                             !.eligible_voters = @ \ {voter_id}],
          ret |-> TRUE]

\* Vote.withdraw_vote
Vote_withdraw_vote(v, voter_id) ==
    IF v.status # PENDING THEN [vote |-> v, ret |-> FALSE]
    ELSE IF voter_id \notin v.eligible_voters THEN [vote |-> v, ret |-> FALSE]
    ELSE IF voter_id \notin v.yes_votes /\ voter_id \notin v.no_votes
         THEN [vote |-> v, ret |-> FALSE]
    ELSE [vote |-> [v EXCEPT !.yes_votes = @ \ {voter_id}, !.no_votes = @ \ {voter_id}],
          ret |-> TRUE]

\* the comparison made strict
ReachedPercentage_Strict(count, total_voters, required_percentage) ==
    count * Percent > required_percentage * total_voters

\* current_percentage >= required_percentage, with current_percentage =
\* yes_count / total_voters (total_voters > 0)
ReachedPercentage(count, total_voters, required_percentage) ==
    count * Percent >= required_percentage * total_voters

\* the timeout test at the deadline itself
TimedOut_AtDeadline(v, t) == t - v.start_time >= v.timeout

\* time.time() - self.start_time > self.timeout
TimedOut(v, t) == t - v.start_time > v.timeout

\* check_result that tests the timeout before the thresholds
Vote_check_result_TimeoutFirst(v, t) ==
    IF v.status # PENDING THEN [vote |-> v, ret |-> v.status]
    ELSE LET total_voters == Cardinality(v.eligible_voters)
             yes_count == Cardinality(v.yes_votes)
             no_count == Cardinality(v.no_votes)
             remaining == total_voters - (yes_count + no_count)
         IN  IF total_voters = 0 THEN [vote |-> v, ret |-> None]
             ELSE IF TimedOut(v, t)
                  THEN [vote |-> [v EXCEPT !.status = TIMEOUT], ret |-> TIMEOUT]
             ELSE IF ReachedPercentage(yes_count, total_voters, v.required_percentage)
                  THEN [vote |-> [v EXCEPT !.status = PASSED], ret |-> PASSED]
             ELSE IF ~ReachedPercentage(yes_count + remaining, total_voters,
                                        v.required_percentage)
                  THEN [vote |-> [v EXCEPT !.status = REJECTED], ret |-> REJECTED]
             ELSE [vote |-> v, ret |-> None]

\* check_result without the return of the stored status of a terminal ballot
Vote_check_result_Reevaluates(v, t) ==
    LET total_voters == Cardinality(v.eligible_voters)
        yes_count == Cardinality(v.yes_votes)
        no_count == Cardinality(v.no_votes)
        remaining == total_voters - (yes_count + no_count)
    IN  IF total_voters = 0 THEN [vote |-> v, ret |-> None]
        ELSE IF ReachedPercentage(yes_count, total_voters, v.required_percentage)
             THEN [vote |-> [v EXCEPT !.status = PASSED], ret |-> PASSED]
        ELSE IF ~ReachedPercentage(yes_count + remaining, total_voters,
                                   v.required_percentage)
             THEN [vote |-> [v EXCEPT !.status = REJECTED], ret |-> REJECTED]
        ELSE IF TimedOut(v, t)
             THEN [vote |-> [v EXCEPT !.status = TIMEOUT], ret |-> TIMEOUT]
        ELSE [vote |-> v, ret |-> None]

\* check_result letting a ballot without eligible voters time out
Vote_check_result_EmptyTimesOut(v, t) ==
    IF v.status # PENDING THEN [vote |-> v, ret |-> v.status]
    ELSE LET total_voters == Cardinality(v.eligible_voters)
             yes_count == Cardinality(v.yes_votes)
             no_count == Cardinality(v.no_votes)
             voted_count == yes_count + no_count
             remaining == total_voters - voted_count
         IN  IF total_voters > 0
                /\ ReachedPercentage(yes_count, total_voters, v.required_percentage)
             THEN [vote |-> [v EXCEPT !.status = PASSED], ret |-> PASSED]
             ELSE IF total_voters > 0
                     /\ ~ReachedPercentage(yes_count + remaining, total_voters,
                                           v.required_percentage)
                  THEN [vote |-> [v EXCEPT !.status = REJECTED], ret |-> REJECTED]
             ELSE IF TimedOut(v, t)
                  THEN [vote |-> [v EXCEPT !.status = TIMEOUT], ret |-> TIMEOUT]
             ELSE [vote |-> v, ret |-> None]

\* Vote.check_result at time t
Vote_check_result(v, t) ==
    IF v.status # PENDING THEN [vote |-> v, ret |-> v.status]
    ELSE LET total_voters == Cardinality(v.eligible_voters)
             yes_count == Cardinality(v.yes_votes)
             no_count == Cardinality(v.no_votes)
             voted_count == yes_count + no_count
             remaining == total_voters - voted_count
         IN  IF total_voters = 0 THEN [vote |-> v, ret |-> None]
             ELSE IF ReachedPercentage(yes_count, total_voters, v.required_percentage)
                  THEN [vote |-> [v EXCEPT !.status = PASSED], ret |-> PASSED]
             ELSE IF ~ReachedPercentage(yes_count + remaining, total_voters,
                                        v.required_percentage)
                  THEN [vote |-> [v EXCEPT !.status = REJECTED], ret |-> REJECTED]
             ELSE IF TimedOut(v, t)
                  THEN [vote |-> [v EXCEPT !.status = TIMEOUT], ret |-> TIMEOUT]
             ELSE [vote |-> v, ret |-> None]

\* Vote.get_progress at time t, its integer fields; required_percentage is
\* kept in hundredths, so that int(total * required_percentage) is the
\* quotient of total * required_percentage by Percent
get_progress(v, t) ==
    LET total == Cardinality(v.eligible_voters)
        yes_count == Cardinality(v.yes_votes)
        no_count == Cardinality(v.no_votes)
        voted_count == yes_count + no_count
        elapsed == t - v.start_time
    IN  [vote_id |-> v.vote_id, type |-> v.vote_type, status |-> v.status,
         total_voters |-> total, yes_votes |-> yes_count, no_votes |-> no_count,
         not_voted |-> total - voted_count, voted_count |-> voted_count,
         required_percentage |-> v.required_percentage,
         required_yes |-> (total * v.required_percentage) \div Percent,
         elapsed_time |-> elapsed,
         remaining_time |-> Max(0, v.timeout - elapsed),
         timeout |-> v.timeout]

\* cancel without the test of the status
Vote_cancel_AnyStatus(v) == [vote |-> [v EXCEPT !.status = CANCELLED], ret |-> TRUE]

\* Vote.cancel
Vote_cancel(v) ==
    IF v.status # PENDING THEN [vote |-> v, ret |-> FALSE]
    ELSE [vote |-> [v EXCEPT !.status = CANCELLED], ret |-> TRUE]

---------------------------------------------------------------------------
(* VoteManager *)

\* vote_id = f"{vote_type}_{self._vote_counter}_{int(time.time())}"
VoteId(vote_type, counter, t) == <<vote_type, counter, t>>

\* an id no create_vote returns: _vote_counter is at least 1 in every id
UnknownId == <<"shutdown", 0, 0>>

\* active_votes is a dict: it iterates in insertion order, the order of the
\* counter in the ids (an id is inserted once, and never after it was deleted)
RECURSIVE InsertionOrder(_)
InsertionOrder(ids) ==
    IF ids = {} THEN <<>>
    ELSE LET first == CHOOSE i \in ids : \A j \in ids : i[2] <= j[2]
         IN  <<first>> \o InsertionOrder(ids \ {first})

\* VoteManager.get_vote: the id of the vote returned, or None
get_vote(av, vote_id) == IF vote_id \in DOMAIN av THEN vote_id ELSE NoVote

\* VoteManager.get_all_pending_votes: the ids of the votes it lists, in order
get_all_pending_votes(av) ==
    InsertionOrder({i \in DOMAIN av : av[i].status = PENDING})

\* VoteManager.get_vote_by_index: the id of the vote returned, or None
get_vote_by_index(av, index) ==
    LET hits == InsertionOrder({i \in DOMAIN av :
                                  av[i].status = PENDING /\ av[i].index = index})
    IN  IF hits = <<>> THEN NoVote ELSE Head(hits)

\* VoteManager.get_pending_vote_by_type: the id of the vote returned, or None
get_pending_vote_by_type(av, vote_type) ==
    LET hits == InsertionOrder({i \in DOMAIN av :
                                  av[i].vote_type = vote_type /\ av[i].status = PENDING})
    IN  IF hits = <<>> THEN NoVote ELSE Head(hits)

\* create_vote without the test for a PENDING ballot of the type
create_vote_NoPendingTest(av, counter, t, vote_type, eligible_voters, required_percentage, timeout, callback) ==
    LET counter1 == counter + 1
        vote_id == VoteId(vote_type, counter1, t)
        index == Len(get_all_pending_votes(av)) + 1
        vote == Vote(vote_id, vote_type, eligible_voters, required_percentage,
                     timeout, callback, index, t)
    IN  [votes |-> (vote_id :> vote) @@ av, counter |-> counter1, ret |-> vote_id]

\* create_vote refused while any ballot of the type is kept, terminal or not
create_vote_AnyStatusBlocks(av, counter, t, vote_type, eligible_voters, required_percentage, timeout, callback) ==
    IF \E i \in DOMAIN av : av[i].vote_type = vote_type
    THEN [votes |-> av, counter |-> counter, ret |-> NoVote]
    ELSE create_vote_NoPendingTest(av, counter, t, vote_type, eligible_voters,
                                   required_percentage, timeout, callback)

\* VoteManager.create_vote at time t: active_votes and _vote_counter afterwards,
\* and the id of the vote returned, or None
create_vote(av, counter, t, vote_type, eligible_voters, required_percentage, timeout, callback) ==
    IF \E i \in DOMAIN av : av[i].vote_type = vote_type /\ av[i].status = PENDING
    THEN [votes |-> av, counter |-> counter, ret |-> NoVote]
    ELSE LET counter1 == counter + 1
             vote_id == VoteId(vote_type, counter1, t)
             pending_count == Len(get_all_pending_votes(av))
             index == pending_count + 1
             vote == Vote(vote_id, vote_type, eligible_voters, required_percentage,
                          timeout, callback, index, t)
         IN  [votes |-> (vote_id :> vote) @@ av, counter |-> counter1, ret |-> vote_id]

\* VoteManager.cast_vote
VoteManager_cast_vote(av, vote_id, voter_id, vote_yes) ==
    IF get_vote(av, vote_id) = NoVote THEN [votes |-> av, ret |-> <<FALSE, FALSE>>]
    ELSE LET r == Vote_cast_vote(av[vote_id], voter_id, vote_yes)
         IN  [votes |-> [av EXCEPT ![vote_id] = r.vote], ret |-> r.ret]

\* delete_vote that takes the ballot out of active_votes
delete_vote_Removes(av, vote_id) ==
    IF get_vote(av, vote_id) = NoVote THEN [votes |-> av, ret |-> FALSE]
    ELSE LET r == Vote_cancel(av[vote_id])
         IN  [votes |-> IF r.ret THEN [i \in DOMAIN av \ {vote_id} |-> av[i]] ELSE av,
              ret |-> r.ret]

\* VoteManager.delete_vote
delete_vote(av, vote_id) ==
    IF get_vote(av, vote_id) = NoVote THEN [votes |-> av, ret |-> FALSE]
    ELSE LET r == Vote_cancel(av[vote_id])
         IN  [votes |-> [av EXCEPT ![vote_id] = r.vote], ret |-> r.ret]

\* check_and_finalize_vote that checks every ballot of active_votes
check_and_finalize_vote_Sweep(av, vote_id, t) ==
    IF get_vote(av, vote_id) = NoVote THEN [votes |-> av, ret |-> None]
    ELSE [votes |-> [i \in DOMAIN av |-> Vote_check_result(av[i], t).vote],
          ret |-> Vote_check_result(av[vote_id], t).ret]

\* VoteManager.check_and_finalize_vote at time t
check_and_finalize_vote(av, vote_id, t) ==
    IF get_vote(av, vote_id) = NoVote THEN [votes |-> av, ret |-> None]
    ELSE LET r == Vote_check_result(av[vote_id], t)
         IN  [votes |-> [av EXCEPT ![vote_id] = r.vote], ret |-> r.ret]

\* cleanup_finished_votes without the test of the status
cleanup_finished_votes_AnyStatus(av, keep_recent_minutes, t) ==
    LET keep == IF keep_recent_minutes < 0 THEN 0 ELSE keep_recent_minutes
        cutoff_time == t - keep * 60
        to_remove == {i \in DOMAIN av : av[i].start_time < cutoff_time}
    IN  [votes |-> [i \in DOMAIN av \ to_remove |-> av[i]],
         ret |-> Cardinality(to_remove)]

SecondsPerMinute == 60

\* VoteManager.cleanup_finished_votes at time t
cleanup_finished_votes(av, keep_recent_minutes, t) ==
    LET keep == IF keep_recent_minutes < 0 THEN 0 ELSE keep_recent_minutes
        cutoff_time == t - keep * SecondsPerMinute
        to_remove == {i \in DOMAIN av :
                        av[i].status # PENDING /\ av[i].start_time < cutoff_time}
    IN  [votes |-> [i \in DOMAIN av \ to_remove |-> av[i]],
         ret |-> Cardinality(to_remove)]

---------------------------------------------------------------------------
(* The kinds of ballot and their VoteTypeConfig. "shutdown" is the kind
   VoteSystem registers, "restart" one added through register_vote_type.
   required_percentage and timeout are read from the configuration file. *)

VoteTypes == {"shutdown", "restart"}

TypeConfig(vote_type) ==
    IF vote_type = "shutdown"
    THEN [required_percentage |-> 100, timeout |-> 1, callback |-> TRUE]
    ELSE [required_percentage |-> 50, timeout |-> 0, callback |-> FALSE]

---------------------------------------------------------------------------
(* Spec: the public methods of a VoteManager, and of the Vote objects it
   hands out, called in any order. *)

\* voter ids in Spec are 1..MgrVoters
MgrVoters == 1
\* the clock of Spec runs over 0..MgrMaxTime
MgrMaxTime == 1

Call(op, ret) == [op |-> op, ret |-> ret]

\* VoteSystem.__init__, before any message is handled
InitSys ==
    /\ handlers = EmptyBag
    /\ monitors = <<>>
    /\ monitor_task = NoVote
    /\ broadcasts = <<>>
    /\ callbacks = <<>>

\* the set a caller passed to create_vote and the ballot created from it;
\* before any create_vote, none
PassedSet(vote_id, voters) == [vote_id |-> vote_id, voters |-> voters]
NoPassedSet == PassedSet(NoVote, {})

\* VoteTypeRegistry.__init__
InitRegistry ==
    /\ registry = <<>>
    /\ keyword_map = <<>>

Init ==
    /\ InitRegistry
    /\ passed_set = NoPassedSet
    /\ active_votes = <<>>
    /\ vote_counter = 0
    /\ now = 0
    /\ last = Call("init", None)
    /\ InitSys

KnownIds == DOMAIN active_votes \cup {UnknownId}

\* create_vote, called while fewer than max_votes ballots were created
CreateVoteWithin(max_votes, vote_type, eligible_voters) ==
    /\ vote_counter < max_votes
    /\ LET c == TypeConfig(vote_type)
           r == create_vote(active_votes, vote_counter, now, vote_type, eligible_voters,
                            c.required_percentage, c.timeout, c.callback)
       IN  /\ active_votes' = r.votes
           /\ vote_counter' = r.counter
           /\ last' = Call("create_vote", r.ret)
    /\ UNCHANGED <<regvars, passed_set, now, sysvars>>

CreateVote(vote_type, eligible_voters) ==
    CreateVoteWithin(MaxVotes, vote_type, eligible_voters)

CastVote(vote_id, voter_id, vote_yes) ==
    /\ LET r == VoteManager_cast_vote(active_votes, vote_id, voter_id, vote_yes)
       IN  /\ active_votes' = r.votes
           /\ last' = Call("cast_vote", r.ret)
    /\ UNCHANGED <<regvars, passed_set, vote_counter, now, sysvars>>

\* vote = get_vote(vote_id); vote.withdraw_vote(voter_id)
WithdrawVote(vote_id, voter_id) ==
    /\ vote_id \in DOMAIN active_votes
    /\ LET r == Vote_withdraw_vote(active_votes[vote_id], voter_id)
       IN  /\ active_votes' = [active_votes EXCEPT ![vote_id] = r.vote]
           /\ last' = Call("withdraw_vote", r.ret)
    /\ UNCHANGED <<regvars, passed_set, vote_counter, now, sysvars>>

DeleteVote(vote_id) ==
    /\ LET r == delete_vote(active_votes, vote_id)
       IN  /\ active_votes' = r.votes
           /\ last' = Call("delete_vote", r.ret)
    /\ UNCHANGED <<regvars, passed_set, vote_counter, now, sysvars>>

CheckAndFinalizeVote(vote_id) ==
    /\ LET r == check_and_finalize_vote(active_votes, vote_id, now)
       IN  /\ active_votes' = r.votes
           /\ last' = Call("check_and_finalize_vote", r.ret)
    /\ UNCHANGED <<regvars, passed_set, vote_counter, now, sysvars>>

CleanupFinishedVotes(keep_recent_minutes) ==
    /\ LET r == cleanup_finished_votes(active_votes, keep_recent_minutes, now)
       IN  /\ active_votes' = r.votes
           /\ last' = Call("cleanup_finished_votes", r.ret)
    /\ UNCHANGED <<regvars, passed_set, vote_counter, now, sysvars>>

\* time passes
Tick(max_time) ==
    /\ now < max_time
    /\ now' = now + 1
    /\ last' = Call("tick", None)
    /\ UNCHANGED <<regvars, passed_set, active_votes, vote_counter, sysvars>>

Next ==
    \/ \E vote_type \in VoteTypes, eligible_voters \in SUBSET (1..MgrVoters) :
          CreateVote(vote_type, eligible_voters)
    \/ \E vote_id \in KnownIds, voter_id \in 1..MgrVoters, vote_yes \in BOOLEAN :
          CastVote(vote_id, voter_id, vote_yes)
    \/ \E vote_id \in DOMAIN active_votes, voter_id \in 1..MgrVoters :
          WithdrawVote(vote_id, voter_id)
    \/ \E vote_id \in KnownIds : DeleteVote(vote_id)
    \/ \E vote_id \in KnownIds : CheckAndFinalizeVote(vote_id)
    \/ \E keep_recent_minutes \in {-1, 0, 1} : CleanupFinishedVotes(keep_recent_minutes)
    \/ Tick(MgrMaxTime)

Spec == Init /\ [][Next]_vars

---------------------------------------------------------------------------
(* SpecVote: one ballot, as create_vote returns it on a new manager, with its
   eligible voters, threshold and timeout drawn from bounded sets; then
   cast_vote, withdraw_vote, check_result and cancel in any order. *)

\* the timeout of the ballot is one of 0..MaxTimeout
MaxTimeout == 1

\* required_percentage as passed to create_vote, in hundredths
RawPercentages == {-50, 0, 25, 50, 67, 75, 100, 150}

InitVote ==
    \E n \in 0..NumVoters, required_percentage \in RawPercentages,
       timeout \in 0..MaxTimeout :
        LET r == create_vote(<<>>, 0, 0, "shutdown", 1..n, required_percentage,
                             timeout, TRUE)
        IN  /\ active_votes = r.votes
            /\ vote_counter = r.counter
            /\ now = 0
            /\ last = Call("create_vote", r.ret)
            /\ InitSys
            /\ InitRegistry
            /\ passed_set = NoPassedSet

\* get_vote(vote_id).get_progress(): the required_yes it reports
GetProgress(vote_id) ==
    /\ last' = Call("get_progress", get_progress(active_votes[vote_id], now).required_yes)
    /\ UNCHANGED <<regvars, passed_set, active_votes, vote_counter, now, sysvars>>

NextVote ==
    \/ \E vote_id \in DOMAIN active_votes : GetProgress(vote_id)
    \/ \E vote_id \in KnownIds, voter_id \in Voters, vote_yes \in BOOLEAN :
          CastVote(vote_id, voter_id, vote_yes)
    \/ \E vote_id \in DOMAIN active_votes, voter_id \in Voters :
          WithdrawVote(vote_id, voter_id)
    \/ \E vote_id \in DOMAIN active_votes : CheckAndFinalizeVote(vote_id)
    \/ \E vote_id \in DOMAIN active_votes : DeleteVote(vote_id)
    \/ Tick(MaxTime)

SpecVote == InitVote /\ [][NextVote]_vars

---------------------------------------------------------------------------
(* SpecIndex: the display indices of VoteManager when three kinds of vote are
   registered (register_vote_type accepts any number of kinds) and ballots
   are created and deleted in any order; the clock stands still. *)

\* create_vote is called while _vote_counter < IndexMaxVotes
IndexMaxVotes == 4

\* the registered kinds: the built-in one and two registered by plugins
IndexVoteTypes == VoteTypes \cup {"backup"}

\* the one eligible voter of every ballot of SpecIndex
IndexVoters == {1}

NextIndex ==
    \/ \E vote_type \in IndexVoteTypes :
          CreateVoteWithin(IndexMaxVotes, vote_type, IndexVoters)
    \/ \E vote_id \in DOMAIN active_votes : DeleteVote(vote_id)

SpecIndex == Init /\ [][NextIndex]_vars

---------------------------------------------------------------------------
(* VoteTypeRegistry, and SpecRegistry: register and unregister called in any
   order with configs whose keyword lists are drawn from a small set. A
   keyword list is held as the set of its keywords: the registry only
   iterates over the lists and tests membership. *)

Keywords == {"!stop", "!poll"}

\* VoteTypeConfig: the fields the registry reads
VoteTypeConfig(vote_type, start_keywords, consult_keywords) ==
    [vote_type |-> vote_type,
     start_keywords |-> start_keywords,
     consult_keywords |-> consult_keywords]

Configs ==
    {VoteTypeConfig(vote_type, start_keywords, consult_keywords) :
        vote_type \in VoteTypes,
        start_keywords \in SUBSET Keywords,
        consult_keywords \in SUBSET Keywords}

\* the keyword map after `self._keyword_map[keyword] = vote_type` for each
\* keyword of keywords
MapKeywords(kmap, keywords, vote_type) ==
    [k \in DOMAIN kmap \cup keywords |-> IF k \in keywords THEN vote_type ELSE kmap[k]]

\* register without the test for a kind already registered
register_Overwrites(reg, kmap, config) ==
    [registry |-> [t \in DOMAIN reg \cup {config.vote_type} |->
                      IF t = config.vote_type THEN config ELSE reg[t]],
     keyword_map |-> MapKeywords(kmap, config.start_keywords \cup config.consult_keywords,
                                 config.vote_type),
     ret |-> TRUE]

\* VoteTypeRegistry.register
register(reg, kmap, config) ==
    IF config.vote_type \in DOMAIN reg
    THEN [registry |-> reg, keyword_map |-> kmap, ret |-> FALSE]
    ELSE [registry |-> (config.vote_type :> config) @@ reg,
          keyword_map |-> MapKeywords(MapKeywords(kmap, config.start_keywords,
                                                  config.vote_type),
                                      config.consult_keywords, config.vote_type),
          ret |-> TRUE]

\* unregister that leaves the keywords of the type in the keyword map
unregister_KeepsKeywords(reg, kmap, vote_type) ==
    IF vote_type \notin DOMAIN reg
    THEN [registry |-> reg, keyword_map |-> kmap, ret |-> FALSE]
    ELSE [registry |-> [t \in DOMAIN reg \ {vote_type} |-> reg[t]],
          keyword_map |-> kmap,
          ret |-> TRUE]

\* VoteTypeRegistry.unregister
unregister(reg, kmap, vote_type) ==
    IF vote_type \notin DOMAIN reg
    THEN [registry |-> reg, keyword_map |-> kmap, ret |-> FALSE]
    ELSE LET config == reg[vote_type]
             popped == config.start_keywords \cup config.consult_keywords
         IN  [registry |-> [t \in DOMAIN reg \ {vote_type} |-> reg[t]],
              keyword_map |-> [k \in DOMAIN kmap \ popped |-> kmap[k]],
              ret |-> TRUE]

\* VoteTypeRegistry.clear
clear(reg, kmap) == [registry |-> <<>>, keyword_map |-> <<>>, ret |-> None]

\* VoteTypeRegistry.get_by_keyword: None, or the pair (config, is_consult)
get_by_keyword(reg, kmap, keyword) ==
    IF keyword \notin DOMAIN kmap THEN NoVote
    ELSE LET config == reg[kmap[keyword]]
         IN  <<config, keyword \in config.consult_keywords>>

Register(config) ==
    /\ LET r == register(registry, keyword_map, config)
       IN  /\ registry' = r.registry
           /\ keyword_map' = r.keyword_map
           /\ last' = Call("register", r.ret)
    /\ UNCHANGED <<passed_set, active_votes, vote_counter, now, sysvars>>

Unregister(vote_type) ==
    /\ LET r == unregister(registry, keyword_map, vote_type)
       IN  /\ registry' = r.registry
           /\ keyword_map' = r.keyword_map
           /\ last' = Call("unregister", r.ret)
    /\ UNCHANGED <<passed_set, active_votes, vote_counter, now, sysvars>>

Clear ==
    /\ LET r == clear(registry, keyword_map)
       IN  /\ registry' = r.registry
           /\ keyword_map' = r.keyword_map
           /\ last' = Call("clear", r.ret)
    /\ UNCHANGED <<passed_set, active_votes, vote_counter, now, sysvars>>

NextRegistry ==
    \/ \E config \in Configs : Register(config)
    \/ \E vote_type \in VoteTypes : Unregister(vote_type)
    \/ Clear

SpecRegistry == Init /\ [][NextRegistry]_vars

---------------------------------------------------------------------------
(* SpecSnapshot: the caller of create_vote keeps the set it passed as
   eligible_voters and changes it afterwards, while the methods of the manager
   are called in any order. *)

\* voter ids in SpecSnapshot are 1..SnapshotVoters
SnapshotVoters == 2
\* create_vote is called while _vote_counter < SnapshotMaxVotes
SnapshotMaxVotes == 1

\* a Vote built without the copy: eligible_voters is the caller's set
SharesPassedSet_NoCopy(v, passed) == v.vote_id = passed.vote_id

\* Vote.__init__: self.eligible_voters = eligible_voters.copy(), so that the
\* vote and the caller do not share the set object
SharesPassedSet(v, passed) == FALSE

\* the caller calls create_vote with a set and keeps the set
CreateVoteKeepingSet(vote_type, eligible_voters) ==
    /\ vote_counter < SnapshotMaxVotes
    /\ LET c == TypeConfig(vote_type)
           r == create_vote(active_votes, vote_counter, now, vote_type, eligible_voters,
                            c.required_percentage, c.timeout, c.callback)
       IN  /\ active_votes' = r.votes
           /\ vote_counter' = r.counter
           /\ last' = Call("create_vote", r.ret)
           /\ passed_set' = PassedSet(r.ret, eligible_voters)
    /\ UNCHANGED <<regvars, now, sysvars>>

\* the caller adds voter_id to the set it passed, or discards it from the set:
\* every object that shares the set sees the change
MutatePassedSet(voter_id) ==
    /\ passed_set.vote_id # NoVote
    /\ LET voters == IF voter_id \in passed_set.voters
                     THEN passed_set.voters \ {voter_id}
                     ELSE passed_set.voters \cup {voter_id}
       IN  /\ passed_set' = [passed_set EXCEPT !.voters = voters]
           /\ active_votes' =
                  [i \in DOMAIN active_votes |->
                      IF SharesPassedSet(active_votes[i], passed_set)
                      THEN [active_votes[i] EXCEPT !.eligible_voters = voters]
                      ELSE active_votes[i]]
    /\ last' = Call("eligible_voters", None)
    /\ UNCHANGED <<regvars, vote_counter, now, sysvars>>

NextSnapshot ==
    \/ \E vote_type \in VoteTypes, eligible_voters \in SUBSET (1..SnapshotVoters) :
          CreateVoteKeepingSet(vote_type, eligible_voters)
    \/ \E voter_id \in 1..SnapshotVoters : MutatePassedSet(voter_id)
    \/ \E vote_id \in DOMAIN active_votes, voter_id \in 1..SnapshotVoters,
          vote_yes \in BOOLEAN : CastVote(vote_id, voter_id, vote_yes)
    \/ \E vote_id \in DOMAIN active_votes, voter_id \in 1..SnapshotVoters :
          WithdrawVote(vote_id, voter_id)
    \/ \E vote_id \in DOMAIN active_votes : DeleteVote(vote_id)
    \/ \E vote_id \in DOMAIN active_votes : CheckAndFinalizeVote(vote_id)
    \/ CleanupFinishedVotes(0)
    \/ Tick(MgrMaxTime)

SpecSnapshot == Init /\ [][NextSnapshot]_vars

---------------------------------------------------------------------------
(* SpecCleanup: a VoteManager whose ballots are created, voted on, resolved
   and swept by cleanup_finished_votes, at instants on both sides of a retention window
   of one minute. *)

\* the instants at which SpecCleanup makes its calls, in seconds
CleanupInstants == {0, 1, SecondsPerMinute, SecondsPerMinute + 1}
\* create_vote is called while _vote_counter < CleanupMaxVotes
CleanupMaxVotes == 2
\* the values of keep_recent_minutes
RetentionValues == {-1, 0, 1}
CleanupVoters == {1}

\* time passes until the next call
TickTo(t) ==
    /\ now < t
    /\ now' = t
    /\ last' = Call("tick", None)
    /\ UNCHANGED <<regvars, passed_set, active_votes, vote_counter, sysvars>>

NextCleanup ==
    \/ \E vote_type \in VoteTypes :
          CreateVoteWithin(CleanupMaxVotes, vote_type, CleanupVoters)
    \/ \E vote_id \in DOMAIN active_votes, voter_id \in CleanupVoters, vote_yes \in BOOLEAN :
          CastVote(vote_id, voter_id, vote_yes)
    \/ \E vote_id \in DOMAIN active_votes, voter_id \in CleanupVoters :
          WithdrawVote(vote_id, voter_id)
    \/ \E vote_id \in DOMAIN active_votes : DeleteVote(vote_id)
    \/ \E vote_id \in DOMAIN active_votes : CheckAndFinalizeVote(vote_id)
    \/ \E keep_recent_minutes \in RetentionValues :
          CleanupFinishedVotes(keep_recent_minutes)
    \/ \E t \in CleanupInstants : TickTo(t)

SpecCleanup == Init /\ [][NextCleanup]_vars

---------------------------------------------------------------------------
(* SpecSys: VoteSystem. A handler is a coroutine: it runs without interruption
   up to an await that suspends (reply and _broadcast_to_all hand the message
   to the connectors, vote.callback and asyncio.sleep wait), and any other
   handler or task may run before it resumes. _get_eligible_voters and
   _get_voter_id_from_boardcast hold no suspending await. An action is one
   such uninterrupted segment. A handler that returns after a reply, or whose
   last await is followed by no statement, is one action; a handler that
   returns early without a change of state is not enabled. *)

\* player ids in SpecSys are 1..SysVoters
SysVoters == 1
\* the clock of SpecSys runs over 0..SysMaxTime
SysMaxTime == 1
\* create_vote is called while _vote_counter < SysMaxVotes
SysMaxVotes == 2
\* at most MaxHandlers handler coroutines are suspended at a time
MaxHandlers == 2
\* ballots created and handlers suspended are at most MaxInFlight together
MaxInFlight == 3

\* the sender_id of the administrator, who is not an online player
Admin == 0

\* BoardcastInfo: sender_id, the id _get_voter_id_from_boardcast resolves it
\* to (the sender_id itself for a message of the QQ connector), and is_admin;
\* a player may be an administrator too
Senders ==
    {[sender_id |-> i, voter_id |-> i, is_admin |-> a] : i \in 1..SysVoters, a \in BOOLEAN}
      \cup {[sender_id |-> Admin, voter_id |-> Admin, is_admin |-> TRUE]}

\* what _get_eligible_voters may return: the bound ids of the online players
OnlineSets == SUBSET (1..SysVoters)

\* the index a message carries: <<>> for none, <<k>> for k
Indexes == {<<>>} \cup {<<k>> : k \in 1..SysMaxVotes}

\* a suspended handler: its place, the ballot it holds, the result it was
\* given and, in _handle_vote, the voter whose vote it cast (<<>> for none)
Handler(name, pc, vote_id, result, actual_voter_id) ==
    [name |-> name, pc |-> pc, vote_id |-> vote_id, result |-> result,
     actual_voter_id |-> actual_voter_id]

\* a handler may suspend, n_votes ballots having been created
MaySuspend(n_votes) ==
    /\ BagCardinality(handlers) < MaxHandlers
    /\ n_votes + BagCardinality(handlers) < MaxInFlight

Suspend(h) == handlers (+) SetToBag({h})
Resume(h) == handlers (-) SetToBag({h})

Increment(f, vote_id) ==
    IF vote_id \in DOMAIN f THEN [f EXCEPT ![vote_id] = @ + 1] ELSE (vote_id :> 1) @@ f

\* task.cancel(): a task that has not finished ends at its next resumption
CancelTask(ms, task) ==
    IF task = NoVote THEN ms
    ELSE IF ms[task].pc \in {"scheduled", "sleeping", "result_broadcast"}
         THEN [ms EXCEPT ![task] = [pc |-> "cancelled", wake |-> 0]]
    ELSE ms

\* the automatic approval that records the administrator without making the
\* sender eligible
AutoVote_NotMadeEligible(v, sender, eligible_voters, consult_mode) ==
    IF consult_mode THEN v
    ELSE IF sender.voter_id \in eligible_voters
         THEN Vote_cast_vote(v, sender.voter_id, TRUE).vote
    ELSE IF sender.is_admin
         THEN [v EXCEPT !.yes_votes = @ \cup {sender.sender_id}]
    ELSE v

\* the automatic approval recorded in consult mode as well
AutoVote_AlsoInConsult(v, sender, eligible_voters, consult_mode) ==
    IF sender.voter_id \in eligible_voters
    THEN Vote_cast_vote(v, sender.voter_id, TRUE).vote
    ELSE IF sender.is_admin
         THEN Vote_cast_vote([v EXCEPT !.eligible_voters = @ \cup {sender.sender_id}],
                             sender.sender_id, TRUE).vote
    ELSE v

\* _handle_start_vote_with_config, the automatic approval of the initiator
AutoVote(v, sender, eligible_voters, consult_mode) ==
    IF consult_mode THEN v
    ELSE IF sender.voter_id \in eligible_voters
         THEN Vote_cast_vote(v, sender.voter_id, TRUE).vote
    ELSE IF sender.is_admin
         THEN Vote_cast_vote([v EXCEPT !.eligible_voters = @ \cup {sender.sender_id}],
                             sender.sender_id, TRUE).vote
    ELSE v

\* _handle_start_vote_with_config up to its first broadcast: the outcome
\* broadcast of _handle_vote_result when the ballot is PASSED at once, else
\* the broadcast of the start (and of the reminder, when several are open)
HandleStartVote(sender, vote_type, consult_mode, eligible_voters) ==
    /\ vote_counter < SysMaxVotes
    /\ MaySuspend(vote_counter + 1)
    /\ sender.is_admin \/ sender.voter_id \in eligible_voters
    /\ get_pending_vote_by_type(active_votes, vote_type) = NoVote
    /\ eligible_voters # {}
    /\ LET c == TypeConfig(vote_type)
           created == create_vote(active_votes, vote_counter, now, vote_type,
                                  eligible_voters, c.required_percentage,
                                  c.timeout, c.callback)
           vote_id == created.ret
           voted == [created.votes EXCEPT ![vote_id] =
                        AutoVote(@, sender, eligible_voters, consult_mode)]
           r == check_and_finalize_vote(voted, vote_id, now)
       IN  /\ vote_id # NoVote
           /\ active_votes' = r.votes
           /\ vote_counter' = created.counter
           /\ IF r.ret = PASSED
              THEN /\ broadcasts' = Increment(broadcasts, vote_id)
                   /\ handlers' = Suspend(Handler("_handle_start_vote_with_config",
                                                  "result_broadcast", vote_id, PASSED, <<>>))
              ELSE /\ handlers' = Suspend(Handler("_handle_start_vote_with_config",
                                                  "start_broadcast", vote_id, None, <<>>))
                   /\ UNCHANGED broadcasts
    /\ UNCHANGED <<regvars, passed_set, now, last, monitors, monitor_task, callbacks>>

\* _handle_start_vote_with_config after the broadcasts of the start:
\* self._monitor_task = asyncio.create_task(self._monitor_vote(vote.vote_id))
StartMonitor(h) ==
    /\ h.name = "_handle_start_vote_with_config"
    /\ h.pc = "start_broadcast"
    /\ handlers' = Resume(h)
    /\ monitors' = (h.vote_id :> [pc |-> "scheduled", wake |-> 0]) @@ monitors
    /\ monitor_task' = h.vote_id
    /\ UNCHANGED <<regvars, passed_set, active_votes, vote_counter, now, last, broadcasts, callbacks>>

\* the vote a message refers to (_handle_vote, _select_vote_for_abstain)
SelectVote(av, index) ==
    LET pending_votes == get_all_pending_votes(av)
    IN  IF pending_votes = <<>> THEN NoVote
        ELSE IF index # <<>> THEN get_vote_by_index(av, index[1])
        ELSE IF Len(pending_votes) = 1 THEN pending_votes[1]
        ELSE NoVote

\* _handle_vote up to the broadcast of the vote cast
HandleVote(sender, vote_yes, index) ==
    /\ MaySuspend(vote_counter)
    /\ LET vote_id == SelectVote(active_votes, index)
       IN  /\ vote_id # NoVote
           /\ sender.voter_id \in active_votes[vote_id].eligible_voters
           /\ LET r == Vote_cast_vote(active_votes[vote_id], sender.voter_id, vote_yes)
              IN  /\ r.ret[1]
                  /\ active_votes' = [active_votes EXCEPT ![vote_id] = r.vote]
                  /\ handlers' = Suspend(Handler("_handle_vote", "cast_broadcast",
                                                 vote_id, None, <<sender.voter_id>>))
    /\ UNCHANGED <<regvars, passed_set, vote_counter, now, last, monitors, monitor_task, broadcasts, callbacks>>

\* _handle_vote_result broadcasting nothing but a passed vote
Announces_PassedOnly(result) == result = PASSED

\* _handle_vote_result: the results it broadcasts
Announces(result) == result \in {PASSED, REJECTED, TIMEOUT}

\* _handle_vote_result awaiting vote.callback() whatever the result
InvokesCallback_AnyResult(result, callback) == callback

\* _handle_vote_result: the results on which it awaits vote.callback()
InvokesCallback(result, callback) == result = PASSED /\ callback

\* one more broadcast for each ballot of ids
IncrementAll(f, ids) ==
    [i \in DOMAIN f \cup ids |->
        (IF i \in DOMAIN f THEN f[i] ELSE 0) + (IF i \in ids THEN 1 ELSE 0)]

\* _handle_vote after the broadcast of the vote cast: check_and_finalize_vote
\* and, on a result, _handle_vote_result up to its broadcast. A result that
\* _handle_vote_result does not announce (CANCELLED) returns at once, and the
\* monitor task is cancelled.
VoteCheck(h) ==
    /\ h.name = "_handle_vote"
    /\ h.pc = "cast_broadcast"
    /\ LET r == check_and_finalize_vote(active_votes, h.vote_id, now)
       IN  /\ active_votes' = r.votes
           /\ IF Announces(r.ret)
              THEN /\ broadcasts' = Increment(broadcasts, h.vote_id)
                   /\ handlers' = Resume(h) (+) SetToBag({[h EXCEPT !.pc = "result_broadcast",
                                                                   !.result = r.ret]})
                   /\ UNCHANGED monitors
              ELSE /\ handlers' = Resume(h)
                   /\ monitors' = IF r.ret = None THEN monitors
                                  ELSE CancelTask(monitors, monitor_task)
                   /\ UNCHANGED broadcasts
    /\ UNCHANGED <<regvars, passed_set, vote_counter, now, last, monitor_task, callbacks>>

\* what follows _handle_vote_result in its caller: _handle_vote cancels
\* self._monitor_task, _handle_start_vote_with_config returns
AfterResult(h) ==
    /\ handlers' = Resume(h)
    /\ monitors' = IF h.name = "_handle_vote" THEN CancelTask(monitors, monitor_task)
                   ELSE monitors

\* _handle_vote_result after its broadcast: await vote.callback() on PASSED
\* when the ballot has a callback, else the return to the caller
ResultBroadcastDone(h) ==
    /\ h.pc = "result_broadcast"
    /\ IF InvokesCallback(h.result, active_votes[h.vote_id].callback)
       THEN /\ callbacks' = Increment(callbacks, h.vote_id)
            /\ handlers' = Resume(h) (+) SetToBag({[h EXCEPT !.pc = "callback"]})
            /\ UNCHANGED monitors
       ELSE /\ AfterResult(h)
            /\ UNCHANGED callbacks
    /\ UNCHANGED <<regvars, passed_set, active_votes, vote_counter, now, last, monitor_task, broadcasts>>

\* how `await vote.callback()` ends: it returns, or it raises an Exception
CallbackOutcomes == {"returns", "Exception"}

Caught_Nothing(outcome) == FALSE

\* `except Exception as e: self.logger.error(...)` around the callback
Caught(outcome) == outcome = "Exception"

\* an outcome that leaves _handle_vote_result as an exception of its caller
Propagates(outcome) == outcome # "returns" /\ ~Caught(outcome)

\* vote.callback() returns, or raises and the error is logged: the caller of
\* _handle_vote_result goes on. An exception that were not caught would end
\* the caller before the statements that follow _handle_vote_result.
CallbackDone(h, outcome) ==
    /\ h.pc = "callback"
    /\ IF Propagates(outcome)
       THEN handlers' = Resume(h) /\ UNCHANGED monitors
       ELSE AfterResult(h)
    /\ UNCHANGED <<regvars, passed_set, active_votes, vote_counter, now, last, monitor_task, broadcasts,
                   callbacks>>

\* _handle_abstain_keyword: withdraw_vote, then a broadcast or a reply
HandleAbstain(sender, index) ==
    /\ LET vote_id == SelectVote(active_votes, index)
       IN  /\ vote_id # NoVote
           /\ sender.voter_id \in active_votes[vote_id].eligible_voters
           /\ LET r == Vote_withdraw_vote(active_votes[vote_id], sender.voter_id)
              IN  active_votes' = [active_votes EXCEPT ![vote_id] = r.vote]
    /\ UNCHANGED <<regvars, passed_set, vote_counter, now, last, sysvars>>

\* _handle_delete (administrators only) up to the broadcast of the deletion
HandleDelete(sender) ==
    /\ sender.is_admin
    /\ MaySuspend(vote_counter)
    /\ LET pending_votes == get_all_pending_votes(active_votes)
       IN  /\ Len(pending_votes) = 1
           /\ LET r == delete_vote(active_votes, pending_votes[1])
              IN  /\ r.ret
                  /\ active_votes' = r.votes
                  /\ broadcasts' = Increment(broadcasts, pending_votes[1])
                  /\ handlers' = Suspend(Handler("_handle_delete", "delete_broadcast",
                                                 pending_votes[1], None, <<>>))
    /\ UNCHANGED <<regvars, passed_set, vote_counter, now, last, monitors, monitor_task, callbacks>>

\* _handle_delete after its broadcast: self._monitor_task.cancel()
DeleteCancelMonitor(h) ==
    /\ h.name = "_handle_delete"
    /\ h.pc = "delete_broadcast"
    /\ handlers' = Resume(h)
    /\ monitors' = CancelTask(monitors, monitor_task)
    /\ UNCHANGED <<regvars, passed_set, active_votes, vote_counter, now, last, monitor_task, broadcasts,
                   callbacks>>

\* _handle_remove (administrators only, the index given in the command):
\* delete_vote and the broadcast of the removal, after which it returns
HandleRemove(sender, index) ==
    /\ sender.is_admin
    /\ get_all_pending_votes(active_votes) # <<>>
    /\ LET vote_id == get_vote_by_index(active_votes, index)
       IN  /\ vote_id # NoVote
           /\ LET r == delete_vote(active_votes, vote_id)
              IN  /\ r.ret
                  /\ active_votes' = r.votes
                  /\ broadcasts' = Increment(broadcasts, vote_id)
    /\ UNCHANGED <<regvars, passed_set, vote_counter, now, last, handlers, monitors, monitor_task, callbacks>>

\* _handle_remove_all (administrators only): delete_vote on every pending
\* vote and one broadcast for all of them, after which it returns
HandleRemoveAll(sender) ==
    /\ sender.is_admin
    /\ LET pending_votes == get_all_pending_votes(active_votes)
           ids == {pending_votes[k] : k \in 1..Len(pending_votes)}
       IN  /\ pending_votes # <<>>
           /\ active_votes' = [i \in DOMAIN active_votes |->
                                 IF i \in ids THEN delete_vote(active_votes, i).votes[i]
                                 ELSE active_votes[i]]
           /\ broadcasts' = IncrementAll(broadcasts, ids)
    /\ UNCHANGED <<regvars, passed_set, vote_counter, now, last, handlers, monitors, monitor_task, callbacks>>

\* _monitor_vote from its first run to asyncio.sleep(remaining_time)
MonitorStart(vote_id) ==
    /\ monitors[vote_id].pc = "scheduled"
    /\ monitors' = [monitors EXCEPT ![vote_id] =
          IF get_vote(active_votes, vote_id) = NoVote THEN [pc |-> "done", wake |-> 0]
          ELSE LET vote == active_votes[vote_id]
                   elapsed == now - vote.start_time
                   remaining_time == Max(1, vote.timeout - elapsed)
               IN  [pc |-> "sleeping", wake |-> now + remaining_time]]
    /\ UNCHANGED <<regvars, passed_set, active_votes, vote_counter, now, last, handlers, monitor_task,
                   broadcasts, callbacks>>

\* _monitor_vote after the sleep: check_and_finalize_vote and, on TIMEOUT,
\* _handle_vote_result up to its broadcast
MonitorWake(vote_id) ==
    /\ monitors[vote_id].pc = "sleeping"
    /\ now >= monitors[vote_id].wake
    /\ IF get_vote(active_votes, vote_id) = NoVote
       THEN /\ monitors' = [monitors EXCEPT ![vote_id] = [pc |-> "done", wake |-> 0]]
            /\ UNCHANGED <<active_votes, broadcasts>>
       ELSE LET r == check_and_finalize_vote(active_votes, vote_id, now)
            IN  /\ active_votes' = r.votes
                /\ IF r.ret = TIMEOUT
                   THEN /\ broadcasts' = Increment(broadcasts, vote_id)
                        /\ monitors' = [monitors EXCEPT ![vote_id] =
                                           [pc |-> "result_broadcast", wake |-> 0]]
                   ELSE /\ monitors' = [monitors EXCEPT ![vote_id] =
                                           [pc |-> "done", wake |-> 0]]
                        /\ UNCHANGED broadcasts
    /\ UNCHANGED <<regvars, passed_set, vote_counter, now, last, handlers, monitor_task, callbacks>>

\* _monitor_vote after the broadcast of the timeout
MonitorDone(vote_id) ==
    /\ monitors[vote_id].pc = "result_broadcast"
    /\ monitors' = [monitors EXCEPT ![vote_id] = [pc |-> "done", wake |-> 0]]
    /\ UNCHANGED <<regvars, passed_set, active_votes, vote_counter, now, last, handlers, monitor_task,
                   broadcasts, callbacks>>

\* time passes
SysTick ==
    /\ now < SysMaxTime
    /\ now' = now + 1
    /\ UNCHANGED <<regvars, passed_set, active_votes, vote_counter, last, sysvars>>

NextSys ==
    \/ \E sender \in Senders, vote_type \in VoteTypes, consult_mode \in BOOLEAN,
          eligible_voters \in OnlineSets :
          HandleStartVote(sender, vote_type, consult_mode, eligible_voters)
    \/ \E sender \in Senders, vote_yes \in BOOLEAN, index \in Indexes :
          HandleVote(sender, vote_yes, index)
    \/ \E sender \in Senders, index \in Indexes : HandleAbstain(sender, index)
    \/ \E sender \in Senders : HandleDelete(sender)
    \/ \E sender \in Senders, index \in 1..SysMaxVotes : HandleRemove(sender, index)
    \/ \E sender \in Senders : HandleRemoveAll(sender)
    \/ \E h \in BagToSet(handlers) : StartMonitor(h)
    \/ \E h \in BagToSet(handlers) : VoteCheck(h)
    \/ \E h \in BagToSet(handlers) : ResultBroadcastDone(h)
    \/ \E h \in BagToSet(handlers), outcome \in CallbackOutcomes : CallbackDone(h, outcome)
    \/ \E h \in BagToSet(handlers) : DeleteCancelMonitor(h)
    \/ \E vote_id \in DOMAIN monitors : MonitorStart(vote_id)
    \/ \E vote_id \in DOMAIN monitors : MonitorWake(vote_id)
    \/ \E vote_id \in DOMAIN monitors : MonitorDone(vote_id)
    \/ SysTick

SpecSys == Init /\ [][NextSys]_vars

\* The event loop runs every coroutine that is ready: a suspended handler
\* whose await has completed resumes, a monitor task that was created starts,
\* a monitor whose sleep has elapsed wakes; and time advances. What the users
\* send is not fair: nobody has to vote.
FairSys ==
    /\ WF_vars(SysTick)
    /\ WF_vars(\E h \in BagToSet(handlers) : StartMonitor(h))
    /\ WF_vars(\E h \in BagToSet(handlers) : VoteCheck(h))
    /\ WF_vars(\E h \in BagToSet(handlers) : ResultBroadcastDone(h))
    /\ WF_vars(\E h \in BagToSet(handlers), outcome \in CallbackOutcomes : CallbackDone(h, outcome))
    /\ WF_vars(\E h \in BagToSet(handlers) : DeleteCancelMonitor(h))
    /\ WF_vars(\E vote_id \in DOMAIN monitors : MonitorStart(vote_id))
    /\ WF_vars(\E vote_id \in DOMAIN monitors : MonitorWake(vote_id))
    /\ WF_vars(\E vote_id \in DOMAIN monitors : MonitorDone(vote_id))

SpecSysFair == Init /\ [][NextSys]_vars /\ FairSys

---------------------------------------------------------------------------
(* Properties of Vote and VoteManager *)

Ids == DOMAIN active_votes

\* what a call of Spec or SpecVote can change, and what it returned
callview == <<active_votes, vote_counter, now, last.op, ToString(last.ret)>>
PendingIds == {i \in Ids : active_votes[i].status = PENDING}

Elapsed(v) == now - v.start_time

\* C1: once the status of a ballot is not PENDING, no call (cast_vote,
\* withdraw_vote, check_and_finalize_vote, delete_vote, in any order) changes
\* it: PENDING is the only status a ballot ever leaves.
C1_TerminalStatusIsFinal ==
    [][\A i \in Ids :
          (active_votes[i].status # PENDING /\ i \in DOMAIN active_votes')
             => active_votes'[i].status = active_votes[i].status]_vars

\* a cancelled ballot was checked again, and the check read CANCELLED
C1_Witness ==
    /\ last.op = "check_and_finalize_vote"
    /\ last.ret = CANCELLED
    /\ \E i \in Ids : active_votes[i].status = CANCELLED

\* C4: active_votes holds at most one PENDING ballot per vote_type; in a state
\* with a PENDING ballot of a type, create_vote for that type returns None and
\* adds nothing; get_pending_vote_by_type has at most one match.
C4_OnePendingPerType ==
    /\ \A i, j \in PendingIds :
          active_votes[i].vote_type = active_votes[j].vote_type => i = j
    /\ \A vote_type \in VoteTypes :
          LET matches == {i \in PendingIds : active_votes[i].vote_type = vote_type}
          IN  /\ Cardinality(matches) <= 1
              /\ matches # {} =>
                    /\ get_pending_vote_by_type(active_votes, vote_type) \in matches
                    /\ \A eligible_voters \in SUBSET (1..MgrVoters) :
                          LET c == TypeConfig(vote_type)
                              r == create_vote(active_votes, vote_counter, now, vote_type,
                                               eligible_voters, c.required_percentage,
                                               c.timeout, c.callback)
                          IN  r.ret = NoVote /\ r.votes = active_votes
                                /\ r.counter = vote_counter

\* create_vote returned None while a ballot of each type is PENDING
C4_Witness ==
    /\ last.op = "create_vote"
    /\ last.ret = NoVote
    /\ \A vote_type \in VoteTypes :
          \E i \in PendingIds : active_votes[i].vote_type = vote_type

\* C5: yes_votes and no_votes of every ballot are disjoint.
C5_YesNoDisjoint ==
    \A i \in Ids : active_votes[i].yes_votes \cap active_votes[i].no_votes = {}

\* a voter changed sides: the cast was accepted, was not a new vote, and
\* both sets hold votes
C5_Witness ==
    /\ last.op = "cast_vote"
    /\ last.ret = <<TRUE, FALSE>>
    /\ \E i \in Ids : active_votes[i].yes_votes # {} /\ active_votes[i].no_votes # {}

\* the reference of C7: the decision for a PENDING ballot with T > 0 voters
CheckReference(v, t) ==
    LET T == Cardinality(v.eligible_voters)
        yes == Cardinality(v.yes_votes)
        no == Cardinality(v.no_votes)
    IN  IF yes * Percent >= v.required_percentage * T THEN PASSED
        ELSE IF (T - no) * Percent < v.required_percentage * T THEN REJECTED
        ELSE IF t - v.start_time > v.timeout THEN TIMEOUT
        ELSE PENDING

\* C7: check_result on a PENDING ballot with T = |eligible_voters| > 0 decides
\* as the reference does: PASSED if |yes_votes|/T >= required_percentage, else
\* REJECTED if (T - |no_votes|)/T < required_percentage, else TIMEOUT if the
\* timeout has elapsed, else no decision and the ballot stays PENDING.
C7_CheckResultReference ==
    [][\A i \in Ids :
          (/\ last'.op = "check_and_finalize_vote"
           /\ active_votes[i].status = PENDING
           /\ active_votes[i].eligible_voters # {})
          => LET ref == CheckReference(active_votes[i], now)
             IN  /\ active_votes'[i].status = ref
                 /\ last'.ret = IF ref = PENDING THEN None ELSE ref]_vars

\* a ballot is PASSED by a check made after its deadline
C7_Witness ==
    /\ last.op = "check_and_finalize_vote"
    /\ last.ret = PASSED
    /\ \E i \in Ids : /\ active_votes[i].status = PASSED
                      /\ Elapsed(active_votes[i]) > active_votes[i].timeout
                      /\ active_votes[i].no_votes # {}

\* C8: a ballot is REJECTED only when |yes_votes| plus the eligible voters who
\* have not voted is strictly below required_percentage * |eligible_voters|;
\* with 4 eligible voters, threshold 0.5 and two rejections, check_result
\* before the deadline leaves the ballot PENDING.
C8_EarlyRejectOnlyWhenImpossible ==
    \A i \in Ids :
        LET v == active_votes[i]
            T == Cardinality(v.eligible_voters)
            yes == Cardinality(v.yes_votes)
            not_voted == Cardinality(v.eligible_voters \ (v.yes_votes \cup v.no_votes))
        IN  /\ v.status = REJECTED
                => (yes + not_voted) * Percent < v.required_percentage * T
            /\ (/\ v.status = PENDING
                /\ (yes + not_voted) * Percent = v.required_percentage * T
                /\ yes * Percent < v.required_percentage * T
                /\ Elapsed(v) <= v.timeout)
                => LET r == Vote_check_result(v, now)
                   IN  r.ret = None /\ r.vote.status = PENDING

\* 4 eligible voters, threshold 0.5, two rejections, checked: still PENDING
C8_Witness ==
    /\ last.op = "check_and_finalize_vote"
    /\ last.ret = None
    /\ \E i \in Ids : /\ Cardinality(active_votes[i].eligible_voters) = 4
                      /\ active_votes[i].required_percentage = 50
                      /\ Cardinality(active_votes[i].no_votes) = 2
                      /\ active_votes[i].yes_votes = {}
                      /\ active_votes[i].status = PENDING

\* neither the pass condition nor the early-reject condition of check_result
UndecidedByThreshold(v) ==
    LET T == Cardinality(v.eligible_voters)
        yes == Cardinality(v.yes_votes)
        no == Cardinality(v.no_votes)
    IN  /\ T > 0
        /\ yes * Percent < v.required_percentage * T
        /\ (T - no) * Percent >= v.required_percentage * T

\* C9: a PENDING ballot that no threshold decides becomes TIMEOUT on a check
\* made after its timeout has elapsed since start_time, and stays PENDING on a
\* check made earlier; no ballot becomes TIMEOUT before its timeout elapsed.
C9_TimeoutOnlyAfterDeadline ==
    [][\A i \in Ids :
          /\ (/\ last'.op = "check_and_finalize_vote"
              /\ active_votes[i].status = PENDING
              /\ UndecidedByThreshold(active_votes[i]))
             => /\ Elapsed(active_votes[i]) > active_votes[i].timeout
                    => active_votes'[i].status = TIMEOUT /\ last'.ret = TIMEOUT
                /\ Elapsed(active_votes[i]) <= active_votes[i].timeout
                    => active_votes'[i].status = PENDING /\ last'.ret = None
          /\ (active_votes[i].status = PENDING /\ active_votes'[i].status = TIMEOUT)
             => Elapsed(active_votes[i]) > active_votes[i].timeout]_vars

\* a ballot with timeout 1 and votes on both sides timed out at a check
C9_Witness ==
    /\ last.op = "check_and_finalize_vote"
    /\ last.ret = TIMEOUT
    /\ \E i \in Ids : /\ active_votes[i].status = TIMEOUT
                      /\ active_votes[i].timeout = 1
                      /\ active_votes[i].yes_votes # {}
                      /\ active_votes[i].no_votes # {}

\* C10: the index values of the PENDING ballots are exactly 1..N, N being the
\* number of PENDING ballots.
C10_DenseIndices ==
    {active_votes[i].index : i \in PendingIds} = 1..Cardinality(PendingIds)

\* C11: no two PENDING ballots have the same index, so that
\* get_vote_by_index identifies at most one open ballot.
C11_UniquePendingIndex ==
    \A i, j \in PendingIds :
        active_votes[i].index = active_votes[j].index => i = j

\* C12: get_all_pending_votes returns exactly the PENDING ballots, each once,
\* in the order of increasing index.
C12_PendingOrderedByIndex ==
    LET pending_votes == get_all_pending_votes(active_votes)
    IN  /\ {pending_votes[k] : k \in 1..Len(pending_votes)} = PendingIds
        /\ Len(pending_votes) = Cardinality(PendingIds)
        /\ \A k, l \in 1..Len(pending_votes) :
              k < l => active_votes[pending_votes[k]].index
                          <= active_votes[pending_votes[l]].index

\* C13: create_vote creates no ballot for an empty eligible_voters set: it
\* returns None and leaves active_votes as it was, and no ballot in
\* active_votes has an empty eligible_voters.
C13_NoEmptyEligibility ==
    /\ \A i \in Ids : active_votes[i].eligible_voters # {}
    /\ \A vote_type \in VoteTypes :
          LET c == TypeConfig(vote_type)
              r == create_vote(active_votes, vote_counter, now, vote_type, {},
                               c.required_percentage, c.timeout, c.callback)
          IN  r.ret = NoVote /\ r.votes = active_votes

---------------------------------------------------------------------------
(* Properties of VoteSystem *)

\* C2: the callback of a ballot that passes is invoked exactly once under
\* every interleaving of _handle_vote calls by different voters: no ballot
\* has its callback invoked a second time, by the handlers of two different
\* voters that are both in _handle_vote_result for it.
C2_CallbackInvokedOnce ==
    \A vote_id \in DOMAIN callbacks :
        \/ callbacks[vote_id] <= 1
        \/ \A h1, h2 \in BagToSet(handlers) :
              (/\ h1.vote_id = vote_id /\ h1.pc = "callback"
               /\ h2.vote_id = vote_id /\ h2.pc = "callback")
                  => h1.actual_voter_id = h2.actual_voter_id

\* C3: the outcome of a ballot is announced at most once.
C3_OutcomeAnnouncedOnce ==
    \A vote_id \in DOMAIN broadcasts : broadcasts[vote_id] <= 1

\* C6: every recorded vote of a ballot, approval or objection, is by a member
\* of its eligible_voters; the administrator who starts a ballot without
\* being an online player is added to eligible_voters before the approval is
\* recorded.
C6_VotersAreEligible ==
    \A i \in Ids :
        active_votes[i].yes_votes \cup active_votes[i].no_votes
            \subseteq active_votes[i].eligible_voters

\* an administrator outside the online players started a ballot and the
\* approval stands
C6_Witness ==
    \E i \in Ids :
        /\ Admin \in active_votes[i].yes_votes
        /\ Admin \in active_votes[i].eligible_voters
        /\ active_votes[i].eligible_voters # {Admin}

\* the ids that create_vote can make in SpecSys
SysIds == {VoteId(vote_type, counter, t) :
              vote_type \in VoteTypes, counter \in 1..SysMaxVotes, t \in 0..SysMaxTime}

IsPending(vote_id) ==
    vote_id \in DOMAIN active_votes /\ active_votes[vote_id].status = PENDING

\* the monitor of the ballot sleeps and will wake within the clock, after the
\* deadline of the ballot
MonitorWillFire(vote_id) ==
    /\ vote_id \in DOMAIN monitors
    /\ monitors[vote_id].pc = "sleeping"
    /\ monitors[vote_id].wake <= SysMaxTime
    /\ active_votes[vote_id].start_time + active_votes[vote_id].timeout
          < monitors[vote_id].wake

\* C14: every ballot opened through VoteSystem eventually leaves PENDING, its
\* monitor forcing the check at the deadline: a PENDING ballot whose monitor
\* sleeps until a time after the deadline is eventually not PENDING, whatever
\* happens to other ballots in the meantime.
C14_EventuallyLeavesPending ==
    \A vote_id \in SysIds :
        (IsPending(vote_id) /\ MonitorWillFire(vote_id)) ~> ~IsPending(vote_id)

StartHandlerFinished(vote_id) ==
    \A h \in BagToSet(handlers) :
        ~(h.name = "_handle_start_vote_with_config" /\ h.vote_id = vote_id)

\* C15: each open ballot has its own monitor: the monitor task of a PENDING
\* ballot whose start handler has finished exists and was not cancelled.
C15_OpenBallotKeepsMonitor ==
    \A vote_id \in PendingIds :
        StartHandlerFinished(vote_id) =>
            /\ vote_id \in DOMAIN monitors
            /\ monitors[vote_id].pc # "cancelled"

\* C16: the monitor task of a ballot that was resolved early, by a decisive
\* vote or by a deletion, is cancelled: once the handlers have returned, no
\* ballot that is PASSED, REJECTED or CANCELLED has a monitor task that is
\* still scheduled or asleep.
C16_ResolvedBallotMonitorCancelled ==
    handlers = EmptyBag =>
        \A vote_id \in DOMAIN monitors :
            active_votes[vote_id].status \in {PASSED, REJECTED, CANCELLED}
                => monitors[vote_id].pc \notin {"scheduled", "sleeping"}

\* C17: while a _handle_vote that has cast a vote waits for its
\* check_and_finalize_vote, no other call changes the ballot.
C17_CastThenCheckUninterrupted ==
    [][\A h \in BagToSet(handlers) :
          (/\ h.name = "_handle_vote"
           /\ h.pc = "cast_broadcast"
           /\ h \in BagToSet(handlers'))
              => active_votes'[h.vote_id] = active_votes[h.vote_id]]_vars

IsAnnounced(vote_id) ==
    vote_id \in DOMAIN broadcasts /\ broadcasts[vote_id] >= 1

IsResolved(vote_id) ==
    /\ vote_id \in DOMAIN active_votes
    /\ active_votes[vote_id].status \in {PASSED, REJECTED, TIMEOUT, CANCELLED}

\* C18: every resolution is announced: a ballot that is PASSED, REJECTED,
\* TIMEOUT or CANCELLED eventually has a broadcast of its end, whichever path
\* made the transition.
C18_ResolutionAnnounced ==
    \A vote_id \in SysIds : IsResolved(vote_id) ~> IsAnnounced(vote_id)

\* a ballot was decided by the check of its monitor, which announces only a
\* timeout: the announcement is left to the handler that cast the vote
C18_Witness ==
    \E vote_id \in Ids :
        /\ active_votes[vote_id].status \in {PASSED, REJECTED}
        /\ ~IsAnnounced(vote_id)

\* C19: the callback of a ballot is invoked only when the ballot is PASSED.
C19_CallbackOnlyWhenPassed ==
    \A vote_id \in DOMAIN callbacks :
        callbacks[vote_id] >= 1 => active_votes[vote_id].status = PASSED

C19_Witness ==
    \E vote_id \in DOMAIN callbacks :
        callbacks[vote_id] >= 1 /\ active_votes[vote_id].status = PASSED

\* C20: cast_vote by an eligible voter on a PENDING ballot is accepted, leaves
\* the voter in exactly the chosen set and the other voters where they were,
\* and reports is_new_vote iff the voter was in neither set; the same choice
\* cast again at once reports is_new_vote = False and changes neither set.
C20_CastVoteClassifies ==
    [][\A vote_id \in Ids, voter_id \in Voters, vote_yes \in BOOLEAN :
          (/\ last'.op = "cast_vote"
           /\ active_votes' = VoteManager_cast_vote(active_votes, vote_id, voter_id, vote_yes).votes
           /\ last'.ret = VoteManager_cast_vote(active_votes, vote_id, voter_id, vote_yes).ret
           /\ active_votes[vote_id].status = PENDING
           /\ voter_id \in active_votes[vote_id].eligible_voters)
              => LET before == active_votes[vote_id]
                     after == active_votes'[vote_id]
                     again == Vote_cast_vote(after, voter_id, vote_yes)
                 IN  /\ last'.ret[1]
                     /\ last'.ret[2] = (voter_id \notin before.yes_votes \cup before.no_votes)
                     /\ voter_id \in after.yes_votes <=> vote_yes
                     /\ voter_id \in after.no_votes <=> ~vote_yes
                     /\ after.yes_votes \ {voter_id} = before.yes_votes \ {voter_id}
                     /\ after.no_votes \ {voter_id} = before.no_votes \ {voter_id}
                     /\ again.ret = <<TRUE, FALSE>>
                     /\ again.vote = after]_callview

\* a voter who had voted cast a vote again
C20_Witness ==
    /\ last.op = "cast_vote"
    /\ last.ret = <<TRUE, FALSE>>

---------------------------------------------------------------------------
(* Properties of the calls that are refused, and of what a call leaves alone *)

\* the step is VoteManager.cast_vote(vote_id, voter_id, vote_yes)
IsCastVote(vote_id, voter_id, vote_yes) ==
    /\ last'.op = "cast_vote"
    /\ active_votes' = VoteManager_cast_vote(active_votes, vote_id, voter_id, vote_yes).votes
    /\ last'.ret = VoteManager_cast_vote(active_votes, vote_id, voter_id, vote_yes).ret

\* the step is get_vote(vote_id).withdraw_vote(voter_id)
IsWithdrawVote(vote_id, voter_id) ==
    /\ last'.op = "withdraw_vote"
    /\ vote_id \in DOMAIN active_votes
    /\ active_votes' = [active_votes EXCEPT
                           ![vote_id] = Vote_withdraw_vote(active_votes[vote_id], voter_id).vote]
    /\ last'.ret = Vote_withdraw_vote(active_votes[vote_id], voter_id).ret

\* C21: cast_vote on a ballot that is not PENDING, by a voter outside
\* eligible_voters, or on an unknown id returns (False, False) and leaves
\* every ballot as it was.
C21_RefusedCastChangesNothing ==
    [][\A vote_id \in KnownIds, voter_id \in Voters, vote_yes \in BOOLEAN :
          (/\ IsCastVote(vote_id, voter_id, vote_yes)
           /\ \/ vote_id \notin DOMAIN active_votes
              \/ active_votes[vote_id].status # PENDING
              \/ voter_id \notin active_votes[vote_id].eligible_voters)
              => /\ last'.ret = <<FALSE, FALSE>>
                 /\ active_votes' = active_votes]_callview

\* a cast_vote was refused while a ballot exists
C21_Witness ==
    /\ last.op = "cast_vote"
    /\ last.ret = <<FALSE, FALSE>>
    /\ Ids # {}

\* C22: withdraw_vote returns False and changes nothing when the ballot is
\* not PENDING, the voter is not eligible or has no recorded vote; otherwise
\* it returns True, the voter is in neither set afterwards and nothing else of
\* the ballot changes.
C22_WithdrawVote ==
    [][\A vote_id \in Ids, voter_id \in Voters :
          IsWithdrawVote(vote_id, voter_id)
              => LET before == active_votes[vote_id]
                     after == active_votes'[vote_id]
                 IN  IF \/ before.status # PENDING
                        \/ voter_id \notin before.eligible_voters
                        \/ voter_id \notin before.yes_votes \cup before.no_votes
                     THEN last'.ret = FALSE /\ after = before
                     ELSE /\ last'.ret = TRUE
                          /\ voter_id \notin after.yes_votes \cup after.no_votes
                          /\ after.yes_votes = before.yes_votes \ {voter_id}
                          /\ after.no_votes = before.no_votes \ {voter_id}
                          /\ after = [before EXCEPT !.yes_votes = after.yes_votes,
                                                    !.no_votes = after.no_votes]]_callview

\* a recorded vote was withdrawn
C22_Witness ==
    /\ last.op = "withdraw_vote"
    /\ last.ret = TRUE

\* the step is cleanup_finished_votes(keep_recent_minutes)
IsCleanup(keep_recent_minutes) ==
    /\ last'.op = "cleanup_finished_votes"
    /\ active_votes' = cleanup_finished_votes(active_votes, keep_recent_minutes, now).votes
    /\ last'.ret = cleanup_finished_votes(active_votes, keep_recent_minutes, now).ret

\* C23: cleanup_finished_votes never removes a PENDING ballot; every ballot
\* it removes is terminal and older than the retention window (a negative
\* retention counts as 0), the ballots it keeps are unchanged, and it returns
\* the number of ballots removed.
C23_CleanupRemovesOldTerminal ==
    [][\A keep_recent_minutes \in RetentionValues :
          IsCleanup(keep_recent_minutes)
              => LET removed == Ids \ DOMAIN active_votes'
                     window == Max(0, keep_recent_minutes) * SecondsPerMinute
                 IN  /\ DOMAIN active_votes' \subseteq Ids
                     /\ PendingIds \subseteq DOMAIN active_votes'
                     /\ \A i \in removed :
                           /\ active_votes[i].status # PENDING
                           /\ Elapsed(active_votes[i]) > window
                     /\ \A i \in DOMAIN active_votes' : active_votes'[i] = active_votes[i]
                     /\ last'.ret = Cardinality(removed)]_callview

\* a sweep removed a ballot and kept one that is PENDING
C23_Witness ==
    /\ last.op = "cleanup_finished_votes"
    /\ last.ret >= 1
    /\ PendingIds # {}

\* C24: after cleanup_finished_votes(0) every ballot left in active_votes is
\* PENDING.
C24_CleanupZeroLeavesOnlyPending ==
    [][IsCleanup(0) => \A i \in DOMAIN active_votes' : active_votes'[i].status = PENDING]_callview

\* the step is check_and_finalize_vote(vote_id)
IsCheckAndFinalize(vote_id) ==
    /\ last'.op = "check_and_finalize_vote"
    /\ active_votes' = check_and_finalize_vote(active_votes, vote_id, now).votes
    /\ last'.ret = check_and_finalize_vote(active_votes, vote_id, now).ret

\* the step is delete_vote(vote_id)
IsDeleteVote(vote_id) ==
    /\ last'.op = "delete_vote"
    /\ active_votes' = delete_vote(active_votes, vote_id).votes
    /\ last'.ret = delete_vote(active_votes, vote_id).ret

\* C25: check_and_finalize_vote on a ballot that is already terminal returns
\* the stored status and changes nothing; with an unknown id it returns None
\* and changes nothing.
C25_CheckIdempotentAfterResolution ==
    [][\A vote_id \in KnownIds :
          IsCheckAndFinalize(vote_id)
              => /\ vote_id \notin Ids
                    => last'.ret = None /\ active_votes' = active_votes
                 /\ (vote_id \in Ids /\ active_votes[vote_id].status # PENDING)
                    => /\ last'.ret = active_votes[vote_id].status
                       /\ active_votes' = active_votes]_callview

\* a cancelled ballot was checked after its deadline, and the check read
\* CANCELLED
C25_Witness ==
    /\ last.op = "check_and_finalize_vote"
    /\ last.ret = CANCELLED
    /\ \A i \in Ids : /\ active_votes[i].status = CANCELLED
                      /\ Elapsed(active_votes[i]) > active_votes[i].timeout

\* C26: delete_vote on a PENDING ballot returns True and sets its status to
\* CANCELLED, the ballot staying in active_votes with nothing else changed; on
\* a ballot that is not PENDING or an unknown id it returns False and changes
\* nothing.
C26_DeleteVote ==
    [][\A vote_id \in KnownIds :
          IsDeleteVote(vote_id)
              => IF vote_id \in Ids /\ active_votes[vote_id].status = PENDING
                 THEN /\ last'.ret = TRUE
                      /\ DOMAIN active_votes' = Ids
                      /\ active_votes' = [active_votes EXCEPT ![vote_id].status = CANCELLED]
                 ELSE /\ last'.ret = FALSE
                      /\ active_votes' = active_votes]_callview

\* a PENDING ballot was deleted, and is still in active_votes
C26_Witness ==
    /\ last.op = "delete_vote"
    /\ last.ret = TRUE
    /\ \E i \in Ids : active_votes[i].status = CANCELLED

\* C29: cast_vote, withdraw_vote, delete_vote and check_and_finalize_vote on
\* a ballot leave every other ballot of active_votes as it was.
C29_OtherBallotsUnchanged ==
    [][\A vote_id \in Ids :
          (\/ IsDeleteVote(vote_id)
           \/ IsCheckAndFinalize(vote_id)
           \/ \E voter_id \in CleanupVoters :
                 \/ IsWithdrawVote(vote_id, voter_id)
                 \/ \E vote_yes \in BOOLEAN : IsCastVote(vote_id, voter_id, vote_yes))
              => \A other \in Ids \ {vote_id} :
                    /\ other \in DOMAIN active_votes'
                    /\ active_votes'[other] = active_votes[other]]_callview

\* a vote was cast on one of two open ballots
C29_Witness ==
    /\ last.op = "cast_vote"
    /\ last.ret[1]
    /\ Cardinality(PendingIds) >= 2

\* C30: the eligible_voters of a ballot are frozen once it is created: no
\* change the caller makes to the set it passed to create_vote, and no
\* cast_vote, withdraw_vote, check_result, cancel or cleanup, adds a voter to
\* them or removes one.
C30_EligibilityFrozen ==
    [][\A i \in Ids :
          i \in DOMAIN active_votes'
              => active_votes'[i].eligible_voters = active_votes[i].eligible_voters]_<<active_votes, passed_set>>

\* the caller has changed the set it passed for a ballot that is still held,
\* and the eligible_voters of the ballot are not what the caller's set is now
C30_Witness ==
    /\ last.op = "eligible_voters"
    /\ passed_set.vote_id \in Ids
    /\ active_votes[passed_set.vote_id].eligible_voters # passed_set.voters

---------------------------------------------------------------------------
(* Properties of VoteTypeRegistry *)

regview == <<registry, keyword_map, last.op, ToString(last.ret)>>

\* the step is register(config)
IsRegister(config) ==
    /\ last'.op = "register"
    /\ registry' = register(registry, keyword_map, config).registry
    /\ keyword_map' = register(registry, keyword_map, config).keyword_map
    /\ last'.ret = register(registry, keyword_map, config).ret

\* C27: register of a kind that is already registered returns False; the
\* stored configs and the keyword map are unchanged.
C27_RegisterTwiceRefused ==
    [][\A config \in Configs :
          (config.vote_type \in DOMAIN registry /\ IsRegister(config))
              => /\ last'.ret = FALSE
                 /\ registry' = registry
                 /\ keyword_map' = keyword_map]_regview

\* a register was refused
C27_Witness ==
    /\ last.op = "register"
    /\ last.ret = FALSE
    /\ registry # <<>>

\* C28: a keyword is in the keyword map exactly when it is a start or consult
\* keyword of a registered kind, and every keyword of every registered kind
\* resolves through get_by_keyword.
C28_RegistryMapsInSync ==
    /\ \A k \in Keywords :
          k \in DOMAIN keyword_map
              <=> \E t \in DOMAIN registry :
                     k \in registry[t].start_keywords \cup registry[t].consult_keywords
    /\ \A t \in DOMAIN registry :
          \A k \in registry[t].start_keywords \cup registry[t].consult_keywords :
              get_by_keyword(registry, keyword_map, k) # NoVote

\* C31: an Exception raised by the callback of a PASSED ballot is caught in
\* _handle_vote_result: the caller goes on with what follows the call
\* (_handle_vote cancels the monitor task), and the ballot stays PASSED with
\* its vote sets as they were.
C31_CallbackFailureCaught ==
    [][\A h \in BagToSet(handlers) :
          (h.pc = "callback" /\ handlers' = Resume(h))
          => /\ monitors' = IF h.name = "_handle_vote"
                            THEN CancelTask(monitors, monitor_task)
                            ELSE monitors
             /\ h.vote_id \in DOMAIN active_votes
             /\ active_votes[h.vote_id].status = PASSED
             /\ active_votes' = active_votes]_vars

\* the callback of a ballot passed by a vote has ended, and the monitor that
\* the handler of the vote cancels is cancelled
C31_Witness ==
    /\ handlers = EmptyBag
    /\ \E vote_id \in DOMAIN callbacks :
          /\ callbacks[vote_id] >= 1
          /\ active_votes[vote_id].status = PASSED
          /\ vote_id \in DOMAIN monitors
          /\ monitors[vote_id].pc = "cancelled"

\* the vote sets of a ballot change in the step
VoteSetsChange(vote_id) ==
    \/ active_votes'[vote_id].yes_votes # active_votes[vote_id].yes_votes
    \/ active_votes'[vote_id].no_votes # active_votes[vote_id].no_votes

\* C32: every change that a handler of VoteSystem makes to the vote sets of a
\* ballot, a cast as well as a withdrawal, is followed by a
\* check_and_finalize_vote of the ballot by that handler: the step leaves the
\* handler suspended before its check, or the handler has ended and the ballot
\* is as check_and_finalize_vote leaves it.
C32_MutationFollowedByCheck ==
    [][\A vote_id \in DOMAIN active_votes \cap DOMAIN active_votes' :
          VoteSetsChange(vote_id)
          => \/ \E h \in BagToSet(handlers') :
                   /\ h.name = "_handle_vote"
                   /\ h.pc = "cast_broadcast"
                   /\ h.vote_id = vote_id
                   /\ CopiesIn(h, handlers') > CopiesIn(h, handlers)
             \/ check_and_finalize_vote(active_votes', vote_id, now').votes
                    = active_votes']_vars

\* C33: when the wait of its monitor has elapsed and a ballot is still PENDING
\* and undecided by the thresholds, the check made by the monitor sets it to
\* TIMEOUT; the monitor waits max(1, timeout - elapsed), elapsed being counted
\* from the start_time of the ballot.
C33_MonitorTimesOut ==
    [][\A vote_id \in DOMAIN monitors \cap DOMAIN active_votes :
          /\ (/\ monitors[vote_id].pc = "sleeping"
               /\ monitors'[vote_id].pc \in {"done", "result_broadcast"}
               /\ active_votes[vote_id].status = PENDING
               /\ UndecidedByThreshold(active_votes[vote_id]))
              => active_votes'[vote_id].status = TIMEOUT
          /\ (monitors[vote_id].pc = "scheduled" /\ monitors'[vote_id].pc = "sleeping")
              => monitors'[vote_id].wake =
                    now + Max(1, active_votes[vote_id].timeout
                                    - (now - active_votes[vote_id].start_time))]_vars

\* C34: a ballot without eligible voters is never decided by check_result:
\* at any time, also after its timeout has elapsed, the call returns no
\* decision and leaves the ballot PENDING, so that its only terminal status
\* is CANCELLED.
C34_EmptyBallotUndecided ==
    \A vote_id \in DOMAIN active_votes :
        LET v == active_votes[vote_id]
        IN  v.eligible_voters = {}
            => /\ v.status \in {PENDING, CANCELLED}
               /\ v.status = PENDING
                  => \A t \in 0..(MaxTime + 1) :
                        Vote_check_result(v, t) = [vote |-> v, ret |-> None]

\* a ballot without eligible voters has been checked after its timeout
C34_Witness ==
    /\ last.op = "check_and_finalize_vote"
    /\ last.ret = None
    /\ \E vote_id \in DOMAIN active_votes :
          /\ active_votes[vote_id].eligible_voters = {}
          /\ active_votes[vote_id].status = PENDING
          /\ now - active_votes[vote_id].start_time > active_votes[vote_id].timeout

\* C35: the start handler records no approval on a ballot opened in consult
\* mode; on a ballot opened in direct mode it records exactly the approval of
\* the initiator (under the voter id when it is eligible, else under the
\* sender id of the administrator, made eligible); when that approval meets
\* the threshold the ballot is PASSED and announced by the start handler, and
\* no monitor is started for it.
C35_StartHandlerAutoVote ==
    [][/\ \A sender \in Senders, vote_type \in VoteTypes, consult_mode \in BOOLEAN,
             eligible_voters \in OnlineSets :
             (/\ vote_counter' = vote_counter + 1
              /\ HandleStartVote(sender, vote_type, consult_mode, eligible_voters))
             => LET vote_id == VoteId(vote_type, vote_counter', now)
                    v == active_votes'[vote_id]
                    started == Handler("_handle_start_vote_with_config",
                                       "result_broadcast", vote_id, PASSED, <<>>)
                IN  /\ consult_mode => v.yes_votes = {}
                    /\ ~consult_mode
                       => v.yes_votes = {IF sender.voter_id \in eligible_voters
                                         THEN sender.voter_id ELSE sender.sender_id}
                    /\ v.yes_votes \subseteq v.eligible_voters
                    /\ v.no_votes = {}
                    /\ ReachedPercentage(Cardinality(v.yes_votes),
                                         Cardinality(v.eligible_voters),
                                         v.required_percentage)
                       => /\ v.status = PASSED
                          /\ BagIn(started, handlers')
                          /\ vote_id \in DOMAIN broadcasts'
                          /\ broadcasts'[vote_id] = 1
                          /\ vote_id \notin DOMAIN monitors'
       /\ \A h \in BagToSet(handlers) :
             (/\ h.name = "_handle_start_vote_with_config"
              /\ h.pc \in {"result_broadcast", "callback"})
             => h.vote_id \notin DOMAIN monitors']_vars

\* a ballot opened in direct mode by an administrator who is not among the
\* online voters has passed at once on the approval of the administrator
C35_Witness ==
    \E h \in BagToSet(handlers) :
        /\ h.name = "_handle_start_vote_with_config"
        /\ h.pc = "result_broadcast"
        /\ active_votes[h.vote_id].status = PASSED
        /\ active_votes[h.vote_id].yes_votes = {Admin}
        /\ h.vote_id \notin DOMAIN monitors

\* the step is create_vote for vote_type with the voters of SpecCleanup
IsCreateVote(vote_type) ==
    /\ last'.op = "create_vote"
    /\ LET c == TypeConfig(vote_type)
           r == create_vote(active_votes, vote_counter, now, vote_type, CleanupVoters,
                            c.required_percentage, c.timeout, c.callback)
       IN  /\ active_votes' = r.votes
           /\ vote_counter' = r.counter
           /\ last'.ret = r.ret

\* the ballots of vote_type are resolved: there is one and none is PENDING
SlotFreed(vote_type) ==
    /\ \E i \in Ids : active_votes[i].vote_type = vote_type
    /\ \A i \in Ids :
          active_votes[i].vote_type = vote_type
          => active_votes[i].status \in {PASSED, REJECTED, TIMEOUT, CANCELLED}

\* C36: once the PENDING ballot of a kind is PASSED, REJECTED, TIMEOUT or
\* CANCELLED, the next create_vote for the kind returns a new PENDING ballot
\* under an id no kept ballot has, and the resolved ballot stays in
\* active_votes, unchanged, where get_vote finds it; only
\* cleanup_finished_votes takes a ballot out of active_votes.
C36_ResolutionFreesSlot ==
    [][/\ \A vote_type \in VoteTypes :
             (SlotFreed(vote_type) /\ IsCreateVote(vote_type))
             => /\ last'.ret # NoVote
                /\ last'.ret \notin Ids
                /\ get_vote(active_votes', last'.ret) # NoVote
                /\ active_votes'[last'.ret].status = PENDING
                /\ active_votes'[last'.ret].vote_type = vote_type
                /\ \A i \in Ids : /\ get_vote(active_votes', i) = i
                                  /\ active_votes'[i] = active_votes[i]
       /\ last'.op # "cleanup_finished_votes" => Ids \subseteq DOMAIN active_votes'
      ]_callview

\* a ballot was created for a kind of which a resolved ballot is kept
C36_Witness ==
    /\ last.op = "create_vote"
    /\ last.ret \in Ids
    /\ active_votes[last.ret].status = PENDING
    /\ \E i \in Ids \ {last.ret} :
          /\ active_votes[i].vote_type = active_votes[last.ret].vote_type
          /\ active_votes[i].status \in {PASSED, REJECTED, TIMEOUT, CANCELLED}

\* the approvals of a ballot meet its threshold
ApprovalsReached(v) ==
    /\ v.eligible_voters # {}
    /\ ReachedPercentage(Cardinality(v.yes_votes), Cardinality(v.eligible_voters),
                         v.required_percentage)

\* C37: a ballot whose approvals meet the threshold while it is PENDING ends
\* PASSED: until the check of the handler that cast the vote, no step of
\* another handler or task takes the approvals below the threshold or gives
\* the ballot another status.
C37_ReachedEndsPassed ==
    [][\A vote_id \in DOMAIN active_votes :
          (/\ active_votes[vote_id].status = PENDING
           /\ ApprovalsReached(active_votes[vote_id]))
          => /\ vote_id \in DOMAIN active_votes'
             /\ \/ active_votes'[vote_id].status = PASSED
                \/ /\ active_votes'[vote_id].status = PENDING
                   /\ ApprovalsReached(active_votes'[vote_id])]_vars

\* C38: a withdrawal creates no threshold decision: when a check made before
\* the deadline leaves a ballot PENDING, then after a successful withdraw_vote
\* neither the pass condition nor the early-reject condition holds, and a
\* check made before the deadline still decides nothing.
C38_WithdrawalDecidesNothing ==
    [][\A vote_id \in Ids, voter_id \in Voters :
          (/\ IsWithdrawVote(vote_id, voter_id)
           /\ last'.ret
           /\ active_votes[vote_id].status = PENDING
           /\ UndecidedByThreshold(active_votes[vote_id]))
          => LET v == active_votes'[vote_id]
             IN  /\ UndecidedByThreshold(v)
                 /\ Vote_check_result(v, v.start_time) = [vote |-> v, ret |-> None]
      ]_callview

\* a vote was withdrawn from a ballot that the thresholds do not decide
C38_Witness ==
    /\ last.op = "withdraw_vote"
    /\ last.ret
    /\ \E vote_id \in Ids :
          /\ active_votes[vote_id].status = PENDING
          /\ UndecidedByThreshold(active_votes[vote_id])
          /\ active_votes[vote_id].yes_votes # {}
          /\ active_votes[vote_id].no_votes # {}

\* C39: after any sequence of register, unregister and clear, every value of
\* the keyword map is a registered kind, so that get_by_keyword finds in the
\* registry the kind to which the map sends a keyword.
C39_KeywordsMapToRegistered ==
    /\ \A keyword \in DOMAIN keyword_map : keyword_map[keyword] \in DOMAIN registry
    /\ \A keyword \in Keywords :
          keyword \in DOMAIN keyword_map
          => get_by_keyword(registry, keyword_map, keyword)[1]
                = registry[keyword_map[keyword]]

\* a kind was unregistered while another kind keeps a keyword in the map
C39_Witness ==
    /\ last.op = "unregister"
    /\ last.ret
    /\ DOMAIN keyword_map # {}
    /\ DOMAIN registry # {}

\* the ballot v, PENDING, with n approvals and no refusal
WithApprovals(v, n) ==
    [v EXCEPT !.status = PENDING,
              !.yes_votes = CHOOSE S \in SUBSET v.eligible_voters : Cardinality(S) = n,
              !.no_votes = {}]

\* C40: the required_yes that get_progress reports is the smallest number of
\* approvals at which check_result passes the ballot: whatever the number of
\* eligible voters (at least one) and the threshold, check_result returns
\* PASSED with required_yes approvals and does not with one fewer.
C40_RequiredYesIsSmallestPassing ==
    \A vote_id \in Ids :
        LET v == active_votes[vote_id]
            required_yes == get_progress(v, now).required_yes
        IN  v.eligible_voters # {}
            => /\ required_yes <= Cardinality(v.eligible_voters)
               /\ Vote_check_result(WithApprovals(v, required_yes), now).ret = PASSED
               /\ required_yes > 0
                  => Vote_check_result(WithApprovals(v, required_yes - 1), now).ret
                        # PASSED

====
